---- MODULE Spec2Model ----
(***************************************************************************)
(* Course reader of ABDashboard (src/unnamed/part_002, CourseReader.tsx):  *)
(* per-page view state, per-topic completion, weighted progress and the    *)
(* resume bookmark, kept in React state, mirrored to localStorage and to   *)
(* the course routes of the backend (src/Backend/routes/course.js).        *)
(*                                                                         *)
(* One action is one event of the single JavaScript thread: a click or a   *)
(* settled remote call, together with the render and the effect pass it    *)
(* causes.  Page and topic indices are 0-based as in the code; TLA+        *)
(* sequences are 1-based, so topic i of the code is topics[i + 1].         *)
(***************************************************************************)
EXTENDS Integers, Sequences, FiniteSets, Bags, TLC

VARIABLES
    catalog,            \* what GET /courses/:id answers when it succeeds
    phase,              \* "closed" | "loading" | "ready" (component mounted?)
    topics,             \* useState topics: sequence of [id, pages]
    activeTopicIndex,   \* useState activeTopicIndex
    currentPage,        \* useState currentPage
    progress,           \* useState progress: topic id -> percent
    viewedPages,        \* useState viewedPages: topic id -> Set (insertion order)
    completedTopics,    \* useState completedTopics: topic id -> boolean
    lsBookmark,         \* localStorage bookmark_{courseId}: <<>> or <<bm>>
    lsViewed,           \* localStorage viewedPages_{courseId}: <<>> or <<map>>
    lsCompleted,        \* localStorage completedTopics_{courseId}: <<>> or <<map>>
    remote,             \* backend user.coursesProgress entry of this course: topics
    net,                \* "up" | "down" | "hang": the backend in this session
    pending,            \* remote calls in flight (a bag: any of them may settle next)
    courseCompleted,    \* the "Course Completed" toast has been shown
    events,             \* user events so far: opens and clicks (at most MaxEvents)
    last,               \* the event that produced this state
    sess,               \* facts of the current session, for the round trip
    notes,              \* useState notes: topic id -> page -> text
    lsNotes,            \* localStorage notes_{courseId}: <<>> or <<content>>
    remoteNotes,        \* backend user.notes of this course, in push order
    unhandled,          \* a rejection has left an effect's async function
    auth,               \* useAuth(): "loading" | "absent" | "user"
    courseId,           \* useParams(): the course of the URL, "A" | "B"
    elsewhere,          \* what is stored for the course not in the URL
    coupon,             \* the Coupon document in the database
    useReqs,            \* POST /coupons/:id/use requests being processed
    payStatus,          \* status of the Payment document in the database
    payReqs             \* payment requests being processed

vars == <<catalog, phase, topics, activeTopicIndex, currentPage, progress,
          viewedPages, completedTopics, lsBookmark, lsViewed, lsCompleted,
          remote, net, pending, courseCompleted, events, last, sess,
          notes, lsNotes, remoteNotes, unhandled, auth, courseId, elsewhere,
          coupon, useReqs, payStatus, payReqs>>

noteVars == <<notes, lsNotes, remoteNotes>>

\* what no handler of the reader assigns
switchVars == <<courseId, elsewhere>>
shopVars == <<coupon, useReqs, payStatus, payReqs>>
outside == <<auth, switchVars, shopVars>>

mem == <<topics, activeTopicIndex, currentPage, progress, viewedPages,
         completedTopics>>

(* ------------------------------ bounds -------------------------------- *)
MaxEvents == 3
MaxPending == 2
MaxRequests == 3

(* --------------------------- generic helpers -------------------------- *)
Range(s) == {s[i] : i \in 1..Len(s)}

\* obj[k] || dflt for a key that may be missing
Get(m, k, dflt) == IF k \in DOMAIN m THEN m[k] ELSE dflt

\* { ...m, [k]: v }
Put(m, k, v) == [x \in (DOMAIN m) \cup {k} |-> IF x = k THEN v ELSE m[x]]

EmptyMap == [x \in {} |-> 0]

RECURSIVE SumSeq(_)
SumSeq(s) == IF s = <<>> THEN 0 ELSE Head(s) + SumSeq(Tail(s))

(* ------------------------------ courses ------------------------------- *)
Topic(i, n) == [id |-> i, pages |-> n]

\* Array.from({ length: n }, (_, i) => `/course/${first + i}.jpeg`): an image
\* is modelled by the page number in its file name
ArrayFrom(n, first) == [i \in 1..n |-> first + (i - 1)]

\* the images of the eight fallback topics, in the order of the array
FallbackIds == << "t1", "t2", "t3", "t4", "t5", "t6", "t7", "t8" >>
FallbackImages ==
    << ArrayFrom(17, 2), ArrayFrom(4, 19), ArrayFrom(7, 23), ArrayFrom(5, 30),
       ArrayFrom(13, 35), ArrayFrom(5, 48), ArrayFrom(4, 53), ArrayFrom(2, 57) >>

\* buildFallbackTopics: t1..t8 with 17, 4, 7, 5, 13, 5, 4, 2 images
buildFallbackTopics ==
    [k \in 1..Len(FallbackIds) |-> Topic(FallbackIds[k], Len(FallbackImages[k]))]

\* Answers of the catalog: a course (possibly with no topics, possibly with a
\* topic that has no images) or no course at all.
NoCourse == [present |-> FALSE, topics |-> <<>>]
Course(ts) == [present |-> TRUE, topics |-> ts]
Catalogs ==
    { NoCourse,
      Course(<<>>),
      Course(<< Topic("a", 1), Topic("b", 2) >>),
      Course(<< Topic("a", 2), Topic("z", 0), Topic("b", 1) >>),
      Course(<< Topic("a", 23), Topic("b", 17) >>) }

TopicIds(ts) == {ts[i].id : i \in 1..Len(ts)}

\* topics.findIndex((t) => t._id === id), -1 when absent
FindIndex(ts, id) ==
    IF id \in TopicIds(ts)
    THEN (CHOOSE i \in 1..Len(ts) :
            ts[i].id = id /\ \A j \in 1..(i - 1) : ts[j].id # id) - 1
    ELSE -1

(* --------------------------- localStorage ------------------------------ *)
\* Content of a key that JSON.parse rejects with a SyntaxError.
Unparseable == [unparseable |-> TRUE]
Parses(ls) == ls # <<>> /\ ls[1] # Unparseable

(* ------------------------- Set <-> array forms ------------------------ *)
\* set.add(p): a JavaScript Set keeps insertion order and ignores a repeat
SetAdd(s, p) == IF p \in Range(s) THEN s ELSE Append(s, p)

\* new Set(arr)
RECURSIVE NewSet(_)
NewSet(arr) ==
    IF arr = <<>> THEN <<>>
    ELSE SetAdd(NewSet(SubSeq(arr, 1, Len(arr) - 1)), arr[Len(arr)])

\* new Set(topic.images.map((_, i) => i))
FullRange(n) == [i \in 1..n |-> i - 1]

\* Object.entries(updated).forEach(([k, s]) => toStore[k] = Array.from(s))
ToStore(vp) == [k \in DOMAIN vp |-> vp[k]]

\* Object.entries(parsed).forEach(([k, arr]) => converted[k] = new Set(arr))
FromStore(parsed) == [k \in DOMAIN parsed |-> NewSet(parsed[k])]

(* -------------------------- weighted progress ------------------------- *)
\* Math.round((viewedCount / totalPages) * 100) is computed in IEEE-754
\* doubles.  Math.round rounds a half up, and for totals below 80 the double
\* product equals the exact quotient except for the pairs below, where the
\* exact value ends in .5 and the double falls just under it, e.g.
\* (23 / 40) * 100 = 57.49999999999999.
DoubleJustBelowHalf == {<<23, 40>>, <<41, 40>>, <<51, 40>>}

RoundHalfUp(num, den) == (2 * num + den) \div (2 * den)

MathRoundPercent(viewedCount, totalPages) ==
    IF <<viewedCount, totalPages>> \in DoubleJustBelowHalf
    THEN RoundHalfUp(100 * viewedCount, totalPages) - 1
    ELSE RoundHalfUp(100 * viewedCount, totalPages)

TotalPages(ts) == SumSeq([i \in 1..Len(ts) |-> ts[i].pages])

ViewedCount(ts, vp) ==
    SumSeq([i \in 1..Len(ts) |-> Len(Get(vp, ts[i].id, <<>>))])

weightedProgressOf(ts, vp) ==
    IF TotalPages(ts) = 0 THEN 0
    ELSE MathRoundPercent(ViewedCount(ts, vp), TotalPages(ts))

weightedProgress == weightedProgressOf(topics, viewedPages)

(* ------------------------------- backend ------------------------------ *)
\* user.coursesProgress[course].topics: entries in creation order
RemoteHas(r, t) == \E i \in 1..Len(r) : r[i].topicId = t

\* POST /:courseId/bookmark
RemotePostBookmark(r, t, p) ==
    IF RemoteHas(r, t)
    THEN [i \in 1..Len(r) |->
            IF r[i].topicId = t THEN [r[i] EXCEPT !.lastImageIndex = p] ELSE r[i]]
    ELSE Append(r, [topicId |-> t, percent |-> 0, lastImageIndex |-> p])

\* POST /:courseId/topics/:topicId/complete
RemotePostComplete(r, t) ==
    IF RemoteHas(r, t)
    THEN [i \in 1..Len(r) |->
            IF r[i].topicId = t THEN [r[i] EXCEPT !.percent = 100] ELSE r[i]]
    ELSE Append(r, [topicId |-> t, percent |-> 100, lastImageIndex |-> 0])

\* GET /:courseId/bookmark: the first topic entry, or null
Bookmark(t, p) == [topicId |-> t, imageIndex |-> p]
RemoteGetBookmark(r) ==
    IF r = <<>> THEN <<>> ELSE << Bookmark(r[1].topicId, r[1].lastImageIndex) >>

\* GET /:courseId/progress
RemoteGetProgress(r) ==
    [t \in {r[i].topicId : i \in 1..Len(r)} |->
        r[CHOOSE i \in 1..Len(r) : r[i].topicId = t].percent]

\* POST /:courseId/topics/:topicId/images/:imageIndex/note: the note of the
\* same (topic, image) is removed, the new one pushed
RemotePostNote(rn, t, p, text) ==
    LET Other(n) == ~(n.topicId = t /\ n.imageIndex = p)
    IN Append(SelectSeq(rn, Other), [topicId |-> t, imageIndex |-> p, note |-> text])

\* GET /:courseId/notes: notes.forEach((n) => out[topicId][imageIndex] = n.note)
RECURSIVE RemoteGetNotes(_)
RemoteGetNotes(rn) ==
    IF rn = <<>> THEN EmptyMap
    ELSE LET out == RemoteGetNotes(SubSeq(rn, 1, Len(rn) - 1))
             n   == rn[Len(rn)]
         IN Put(out, n.topicId, Put(Get(out, n.topicId, EmptyMap), n.imageIndex, n.note))

(* ------------------------ render state and effects -------------------- *)
\* The state one render works on: React state, the localStorage entries the
\* effects write, and the remote calls the effects issue.
Rendered ==
    [topics |-> topics, activeTopicIndex |-> activeTopicIndex,
     currentPage |-> currentPage, progress |-> progress,
     viewedPages |-> viewedPages, completedTopics |-> completedTopics,
     lsViewed |-> lsViewed, lsCompleted |-> lsCompleted,
     calls |-> EmptyBag, auto |-> FALSE]

\* const activeTopic = topics[activeTopicIndex]
ActiveTopic(r) == r.topics[r.activeTopicIndex + 1]
HasActiveTopic(r) == r.activeTopicIndex + 1 \in 1..Len(r.topics)

Call(kind, t, p, idx) ==
    [kind |-> kind, topicId |-> t, imageIndex |-> p, idx |-> idx, note |-> ""]

\* load persisted viewedPages from localStorage when topics are ready
LoadPersistedViewed(s) ==
    IF s.lsViewed = <<>> THEN s
    ELSE IF Parses(s.lsViewed)
    THEN [s EXCEPT !.viewedPages = FromStore(s.lsViewed[1])]
    ELSE [s EXCEPT !.viewedPages = EmptyMap]      \* catch { setViewedPages({}) }

\* load persisted completedTopics and reflect them in progress
LoadPersistedCompleted(s) ==
    IF Parses(s.lsCompleted)                      \* catch { noop }
    THEN LET parsed == s.lsCompleted[1]
         IN [s EXCEPT
               !.completedTopics = parsed,
               !.progress =
                   [k \in (DOMAIN s.progress) \cup {x \in DOMAIN parsed : parsed[x]} |->
                       IF k \in DOMAIN parsed /\ parsed[k] THEN 100 ELSE s.progress[k]]]
    ELSE s

\* load bookmark effect: issues GET /bookmark
Issue(s, c) == [s EXCEPT !.calls = @ (+) SetToBag({c})]

LoadBookmarkEffect(s) == Issue(s, Call("getBookmark", "", 0, 0))

\* auto-save bookmark effect: saveBookmark(activeTopic._id, currentPage)
AutoSaveBookmarkEffect(s, r) ==
    Issue(s, Call("postBookmark", ActiveTopic(r).id, r.currentPage, 0))

\* viewed-page effect: add currentPage to the active topic's set and persist
\* variant: the page is appended whether or not the set holds it already
ViewedPageUpdateAppending(vp, t, p) == Put(vp, t, Append(Get(vp, t, <<>>), p))

ViewedPageUpdate(vp, t, p) == Put(vp, t, SetAdd(Get(vp, t, <<>>), p))

ViewedPageEffect(s, r) ==
    LET updated == ViewedPageUpdate(s.viewedPages, ActiveTopic(r).id, r.currentPage)
    IN [s EXCEPT !.viewedPages = updated, !.lsViewed = << ToStore(updated) >>]

\* variant: the topic's last page is left out of the set
MarkAllViewedButLast(s, topic) ==
    LET updated == Put(s.viewedPages, topic.id, FullRange(topic.pages - 1))
    IN [s EXCEPT !.viewedPages = updated, !.lsViewed = << ToStore(updated) >>]

\* setViewedPages of markTopicComplete and of the auto-complete effect
MarkAllViewed(s, topic) ==
    LET updated == Put(s.viewedPages, topic.id, FullRange(topic.pages))
    IN [s EXCEPT !.viewedPages = updated, !.lsViewed = << ToStore(updated) >>]

\* setCompletedTopics of markTopicComplete and of the auto-complete effect
MarkCompleted(s, t) ==
    LET copy == Put(s.completedTopics, t, TRUE)
    IN [s EXCEPT !.completedTopics = copy, !.lsCompleted = << copy >>]

\* variant: lastPage taken as images.length
AutoCompleteFiresPastEnd(r) ==
    /\ r.currentPage = ActiveTopic(r).pages
    /\ Get(r.progress, ActiveTopic(r).id, 0) < 100

\* currentPage === lastPage && (progress[activeTopic._id] || 0) < 100
AutoCompleteFires(r) ==
    /\ r.currentPage = ActiveTopic(r).pages - 1
    /\ Get(r.progress, ActiveTopic(r).id, 0) < 100

\* variant: the auto-complete effect also advances to the next topic
AutoCompleteEffectAdvancing(s, r) ==
    IF AutoCompleteFires(r)
    THEN LET t  == ActiveTopic(r)
             s1 == [s EXCEPT !.progress = Put(@, t.id, 100)]
             s2 == MarkAllViewed(s1, t)
             s3 == MarkCompleted(s2, t.id)
             s4 == IF r.activeTopicIndex + 1 < Len(r.topics)
                   THEN [s3 EXCEPT !.activeTopicIndex = r.activeTopicIndex + 1,
                                   !.currentPage = 0]
                   ELSE s3
         IN [Issue(s4, Call("completeAuto", t.id, 0, 0)) EXCEPT !.auto = TRUE]
    ELSE s

\* auto-complete effect: mark complete, do not advance
AutoCompleteEffect(s, r) ==
    IF AutoCompleteFires(r)
    THEN LET t  == ActiveTopic(r)
             s1 == [s EXCEPT !.progress = Put(@, t.id, 100)]
             s2 == MarkAllViewed(s1, t)
             s3 == MarkCompleted(s2, t.id)
         IN [Issue(s3, Call("completeAuto", t.id, 0, 0)) EXCEPT !.auto = TRUE]
    ELSE s

\* The effect pass after a render `r` in which currentPage or activeTopic
\* changed (and, when topicsChanged, topics): the effects run in source order,
\* each reading the rendered values, their state updates queue up in order.
EffectPass(r, topicsChanged) ==
    LET s1 == IF topicsChanged
              THEN LoadBookmarkEffect(LoadPersistedCompleted(LoadPersistedViewed(r)))
              ELSE r
        s2 == AutoSaveBookmarkEffect(s1, r)
        s3 == ViewedPageEffect(s2, r)
    IN AutoCompleteEffect(s3, r)

\* Effects with deps [currentPage, activeTopic] run only when one changed.
AfterRender(r) ==
    IF <<r.activeTopicIndex, r.currentPage>> # <<activeTopicIndex, currentPage>>
    THEN EffectPass(r, FALSE)
    ELSE r

(* ------------------------------ bookkeeping ---------------------------- *)
\* What the last event did: the position before it, the position its handler
\* set (r), whether the effect pass ran and whether auto-complete fired in it.
LastOf(op, idx, topic, r, s, landed) ==
    [op |-> op, idx |-> idx, topic |-> topic,
     fromTopic |-> activeTopicIndex, fromPage |-> currentPage,
     toTopic |-> r.activeTopicIndex, toPage |-> r.currentPage,
     landed |-> landed,
     wasDone |-> landed /\ Get(r.progress, ActiveTopic(r).id, 0) >= 100,
     auto |-> s.auto]

LastPlain(op) ==
    [op |-> op, idx |-> 0, topic |-> "",
     fromTopic |-> activeTopicIndex, fromPage |-> currentPage,
     toTopic |-> activeTopicIndex, toPage |-> currentPage,
     landed |-> FALSE, wasDone |-> FALSE, auto |-> FALSE]

Landed(r) == <<r.activeTopicIndex, r.currentPage>> # <<activeTopicIndex, currentPage>>

\* The state after a render and its effect pass.
Commit(s, pendBase) ==
    /\ topics' = s.topics
    /\ activeTopicIndex' = s.activeTopicIndex
    /\ currentPage' = s.currentPage
    /\ progress' = s.progress
    /\ viewedPages' = s.viewedPages
    /\ completedTopics' = s.completedTopics
    /\ lsViewed' = s.lsViewed
    /\ lsCompleted' = s.lsCompleted
    /\ pending' = pendBase (+) s.calls

Settled(c) == pending (-) SetToBag({c})

Min(a, b) == IF a < b THEN a ELSE b
Max(a, b) == IF a > b THEN a ELSE b

(* -------------------------------- Init -------------------------------- *)
NoSession == [bmAtOpen |-> <<>>, rbAtOpen |-> <<>>, acted |-> FALSE]

\* localStorage keys and backend entries of a course, nothing stored yet
NoStored ==
    [lsBookmark |-> <<>>, lsNotes |-> <<>>, lsViewed |-> <<>>, lsCompleted |-> <<>>,
     remote |-> <<>>, remoteNotes |-> <<>>]

\* a request of the admin routes that has not arrived yet
Requests == 1..MaxRequests
IdleUse == [pc |-> "idle", usedCount |-> 0]
IdlePay == [pc |-> "idle", op |-> "", status |-> "", to |-> ""]

\* new Coupon({...}): usedCount 0, no usage limit; new Payment: 'initiated'
ShopInit ==
    /\ coupon = [usedCount |-> 0, usageLimit |-> <<>>, isActive |-> TRUE]
    /\ useReqs = [r \in Requests |-> IdleUse]
    /\ payStatus = "initiated"
    /\ payReqs = [r \in Requests |-> IdlePay]

\* the reader is at /course/A; nothing is stored for course B
SwitchInit ==
    /\ courseId = "A"
    /\ elsewhere = NoStored

OutsideInit == SwitchInit /\ ShopInit

ReaderInit ==
    /\ catalog \in Catalogs
    /\ phase = "closed"
    /\ topics = <<>>
    /\ activeTopicIndex = 0
    /\ currentPage = 0
    /\ progress = EmptyMap
    /\ viewedPages = EmptyMap
    /\ completedTopics = EmptyMap
    /\ lsBookmark = <<>>
    /\ lsViewed = <<>>
    /\ lsCompleted = <<>>
    /\ remote = <<>>
    /\ net = "down"
    /\ pending = EmptyBag
    /\ courseCompleted = FALSE
    /\ events = 0
    /\ last = LastPlain("init")
    /\ sess = NoSession
    /\ notes = EmptyMap
    /\ lsNotes = <<>>
    /\ remoteNotes = <<>>
    /\ unhandled = FALSE
    /\ auth = "user"
    /\ SwitchInit

Init == ReaderInit /\ ShopInit

\* Every call of a session settles the same way: the backend is reachable
\* and answers, or it is not and the call fails, or it takes the request and
\* never answers.  apiClient sets no timeout, so such a call stays pending.
Online == net = "up"
Answers(ok) == net # "hang" /\ ok = Online

(* ------------------------- mount and unmount --------------------------- *)
\* The component mounts: fresh React state, the load-course effect issues
\* GET /courses/:id.  (The load-bookmark effect also runs at mount, with
\* topics = []: whatever its call answers, findIndex is -1 and nothing is set.)
Mount ==
    /\ phase = "closed"
    /\ phase' = "loading"
    /\ pending' = SetToBag({Call("getCourse", "", 0, 0)})
    /\ net' \in {"up", "down", "hang"}
    /\ sess' = [bmAtOpen |-> lsBookmark, rbAtOpen |-> RemoteGetBookmark(remote),
                acted |-> FALSE]
    /\ last' = LastPlain("open")
    /\ UNCHANGED <<catalog, mem, lsBookmark, lsViewed, lsCompleted, remote,
                   courseCompleted>>
    /\ UNCHANGED <<noteVars, unhandled>>
    /\ UNCHANGED outside

\* The page is left: React state is gone, the continuations of the calls in
\* flight never run.
Unmount ==
    /\ phase # "closed"
    /\ phase' = "closed"
    /\ topics' = <<>>
    /\ activeTopicIndex' = 0
    /\ currentPage' = 0
    /\ progress' = EmptyMap
    /\ viewedPages' = EmptyMap
    /\ completedTopics' = EmptyMap
    /\ pending' = EmptyBag
    /\ courseCompleted' = FALSE
    /\ sess' = NoSession
    /\ last' = [LastPlain("close") EXCEPT
                  !.fromTopic = 0, !.fromPage = 0, !.toTopic = 0, !.toPage = 0]
    /\ notes' = EmptyMap
    /\ unhandled' = FALSE
    /\ UNCHANGED <<catalog, lsBookmark, lsViewed, lsCompleted, remote, net, events,
                   lsNotes, remoteNotes>>

CloseCourse == Unmount /\ UNCHANGED outside

(* ----------------------------- load course ----------------------------- *)
\* const ls = localStorage.getItem(`notes_${courseId}`);
\* if (ls) setNotes(JSON.parse(ls));   -- inside a catch block: a SyntaxError
\* of JSON.parse is not caught there
NotesFromLocal(n, ls) == IF Parses(ls) THEN ls[1] ELSE n
ThrowsOnParse(ls) == ls # <<>> /\ ~Parses(ls)

\* completedTopics as the load-course effect closed over it at mount
MountCompletedTopics == EmptyMap

\* p[t._id] = completedTopics[t._id] ? 100 : 0 for every topic
FallbackProgress(ts) ==
    [k \in TopicIds(ts) |-> IF Get(MountCompletedTopics, k, FALSE) THEN 100 ELSE 0]

\* variant: the fallback replaces the remote topics whatever was answered
ResolveTopicsAlwaysFallback(ok) == buildFallbackTopics

\* The topic list loadCourse resolves to: the remote topics, or the fallback
\* when the call fails, answers no course, or answers a course without topics.
ResolveTopics(ok) ==
    IF ok /\ catalog.present /\ catalog.topics # <<>>
    THEN catalog.topics
    ELSE buildFallbackTopics

\* GET /courses/:id settles.  With a course in the answer the progress fetch
\* is issued next; otherwise progress is set to the per-topic fallback.
GetCourseSettle(c, ok) ==
    /\ BagIn(c, pending)
    /\ Answers(ok)
    /\ c.kind = "getCourse"
    /\ LET remotePath == ok /\ catalog.present
           r == [Rendered EXCEPT
                   !.topics = ResolveTopics(ok),
                   !.progress = IF remotePath THEN progress
                                ELSE FallbackProgress(buildFallbackTopics),
                   !.calls = IF remotePath
                             THEN SetToBag({Call("getProgress", "", 0, 0)})
                             ELSE EmptyBag]
           s == EffectPass(r, TRUE)
       IN /\ Commit(s, Settled(c))
          /\ last' = LastOf("courseLoaded", 0, "", r, s, TRUE)
    /\ phase' = "ready"
    /\ notes' = IF ok THEN notes ELSE NotesFromLocal(notes, lsNotes)
    /\ unhandled' = (unhandled \/ (~ok /\ ThrowsOnParse(lsNotes)))
    /\ UNCHANGED outside
    /\ UNCHANGED <<net, sess, lsNotes, remoteNotes>>
    /\ UNCHANGED <<catalog, lsBookmark, remote, courseCompleted, events>>

\* GET /courses/:id/progress settles: setProgress(answer || {}) or, on
\* failure, the per-topic fallback computed from the mount-time closure.
GetProgressSettle(c, ok) ==
    /\ BagIn(c, pending)
    /\ Answers(ok)
    /\ c.kind = "getProgress"
    /\ progress' = IF ok THEN RemoteGetProgress(remote) ELSE FallbackProgress(topics)
    /\ pending' = Settled(c) (+) SetToBag({Call("getNotes", "", 0, 0)})
    /\ last' = LastPlain("settled")
    /\ UNCHANGED <<net, sess, noteVars, unhandled>>
    /\ UNCHANGED outside
    /\ UNCHANGED <<catalog, phase, topics, activeTopicIndex, currentPage,
                   viewedPages, completedTopics, lsBookmark, lsViewed, lsCompleted,
                   remote, courseCompleted, events>>

\* GET /courses/:id/notes settles: setNotes(answer || {}), or on failure the
\* notes of localStorage.  When those do not parse, the SyntaxError leaves the
\* inner catch and lands in the outer one, which installs the fallback course
\* and parses the same content again: the rejection leaves the effect.
GetNotesSettle(c, ok) ==
    /\ BagIn(c, pending)
    /\ Answers(ok)
    /\ c.kind = "getNotes"
    /\ LET thrown == ~ok /\ ThrowsOnParse(lsNotes)
           r == IF thrown
                THEN [Rendered EXCEPT
                        !.topics = buildFallbackTopics,
                        !.progress = FallbackProgress(buildFallbackTopics)]
                ELSE Rendered
           s == IF thrown THEN EffectPass(r, TRUE) ELSE r
       IN /\ Commit(s, Settled(c))
          /\ last' = IF thrown THEN LastOf("courseLoaded", 0, "", r, s, TRUE)
                     ELSE LastPlain("settled")
          /\ unhandled' = (unhandled \/ thrown)
    /\ notes' = IF ok THEN RemoteGetNotes(remoteNotes)
                ELSE NotesFromLocal(notes, lsNotes)
    /\ UNCHANGED outside
    /\ UNCHANGED <<net, sess, lsNotes, remoteNotes>>
    /\ UNCHANGED <<catalog, phase, lsBookmark, remote, courseCompleted, events>>

(* ------------------------------ bookmark ------------------------------- *)
\* variant: a bookmark of an unknown topic is applied to the first topic
RestoreBookmarkFirstTopic(r, bm) ==
    IF bm # <<>>
    THEN [r EXCEPT !.activeTopicIndex = Max(FindIndex(r.topics, bm[1].topicId), 0),
                   !.currentPage = bm[1].imageIndex]
    ELSE r

\* setActiveTopicIndex(topicIndex); setCurrentPage(bm.imageIndex) when the
\* bookmark names a topic of the course
RestoreBookmark(r, bm) ==
    IF bm # <<>> /\ FindIndex(r.topics, bm[1].topicId) >= 0
    THEN [r EXCEPT !.activeTopicIndex = FindIndex(r.topics, bm[1].topicId),
                   !.currentPage = bm[1].imageIndex]
    ELSE r

\* load bookmark: the remote answer when the call succeeds, the localStorage
\* entry only when it fails
LoadBookmark(r, ok) ==
    IF ok THEN RestoreBookmark(r, RemoteGetBookmark(remote))
    ELSE IF Parses(lsBookmark) THEN RestoreBookmark(r, lsBookmark)
    ELSE r

GetBookmarkSettle(c, ok) ==
    /\ BagIn(c, pending)
    /\ Answers(ok)
    /\ c.kind = "getBookmark"
    /\ LET r == LoadBookmark(Rendered, ok)
           s == AfterRender(r)
       IN /\ Commit(s, Settled(c))
          /\ last' = LastOf("bookmarkLoaded", 0, "", r, s, Landed(r))
    /\ unhandled' = (unhandled \/ (~ok /\ ThrowsOnParse(lsBookmark)))
    /\ UNCHANGED outside
    /\ UNCHANGED <<net, sess, noteVars>>
    /\ UNCHANGED <<catalog, phase, lsBookmark, remote, courseCompleted, events>>

\* saveBookmark settles: stored by the backend, or on failure written to
\* localStorage
SaveBookmarkLocal(t, p) == << Bookmark(t, p) >>

PostBookmarkSettle(c, ok) ==
    /\ BagIn(c, pending)
    /\ Answers(ok)
    /\ c.kind = "postBookmark"
    /\ remote' = IF ok
                 THEN RemotePostBookmark(remote, c.topicId, c.imageIndex)
                 ELSE remote
    /\ lsBookmark' = IF ok THEN lsBookmark
                     ELSE SaveBookmarkLocal(c.topicId, c.imageIndex)
    /\ pending' = Settled(c)
    /\ last' = IF ok
               THEN [LastPlain("bookmarkSaved") EXCEPT
                       !.topic = c.topicId, !.idx = c.imageIndex]
               ELSE LastPlain("settled")
    /\ UNCHANGED <<net, sess>>
    /\ UNCHANGED <<catalog, phase, mem, lsViewed, lsCompleted, courseCompleted,
                   events>>
    /\ UNCHANGED <<noteVars, unhandled>>
    /\ UNCHANGED outside

(* ----------------------------- navigation ------------------------------ *)
\* const totalPages = activeTopic?.images?.length ?? 0
totalPages == IF HasActiveTopic(Rendered) THEN ActiveTopic(Rendered).pages ELSE 0

\* The controls and the sidebar are rendered once there is an active topic.
ControlsShown ==
    /\ phase = "ready"
    /\ HasActiveTopic(Rendered)

\* The model lets the user click while fewer than MaxPending calls are in
\* flight ...
UserCan ==
    /\ ControlsShown
    /\ BagCardinality(pending) < MaxPending

\* ... and counts the user's events against MaxEvents.
Counted(A) == events < MaxEvents /\ A /\ events' = events + 1

\* The common tail of a click that set the position to render r.
Navigate(op, r) ==
    /\ LET s == AfterRender(r)
       IN /\ Commit(s, pending)
          /\ last' = LastOf(op, 0, "", r, s, Landed(r))
    /\ sess' = [sess EXCEPT !.acted = TRUE]
    /\ UNCHANGED <<catalog, phase, lsBookmark, remote, net, courseCompleted>>
    /\ UNCHANGED <<noteVars, unhandled>>
    /\ UNCHANGED outside

\* Prev: disabled on page 0; setCurrentPage((p) => Math.max(0, p - 1))
PrevPageClick ==
    /\ UserCan
    /\ currentPage # 0
    /\ Navigate("prev", [Rendered EXCEPT !.currentPage = Max(0, currentPage - 1)])

\* Next: disabled when currentPage >= totalPages - 1;
\* setCurrentPage((p) => Math.min(totalPages - 1, p + 1))
NextPageClick ==
    /\ UserCan
    /\ ~(currentPage >= totalPages - 1)
    /\ Navigate("next", [Rendered EXCEPT
                           !.currentPage = Min(totalPages - 1, currentPage + 1)])

\* Next Topic: shown on the last page when a next topic exists
NextTopicClick ==
    /\ UserCan
    /\ currentPage = totalPages - 1
    /\ activeTopicIndex < Len(topics) - 1
    /\ Navigate("nextTopic", [Rendered EXCEPT
                                !.activeTopicIndex = activeTopicIndex + 1,
                                !.currentPage = 0])

\* sidebar: setActiveTopicIndex(idx); setCurrentPage(0)
SelectTopicTo(idx) == [Rendered EXCEPT !.activeTopicIndex = idx, !.currentPage = 0]

SelectTopicClick(idx) ==
    /\ UserCan
    /\ idx \in 0..(Len(topics) - 1)
    /\ Navigate("select", SelectTopicTo(idx))

(* --------------------------- mark complete ----------------------------- *)
\* markTopicComplete up to its await: progress 100, completedTopics and
\* viewedPages set and persisted, POST .../complete issued.  The call keeps
\* the activeTopicIndex of the render the button was clicked in.
MarkTopicCompleteSync(r, topicId) ==
    LET s1 == [r EXCEPT !.progress = Put(@, topicId, 100)]
        s2 == MarkCompleted(s1, topicId)
        i  == FindIndex(r.topics, topicId)
        s3 == IF i >= 0 THEN MarkAllViewed(s2, r.topics[i + 1]) ELSE s2
    IN Issue(s3, Call("complete", topicId, 0, r.activeTopicIndex))

MarkTopicCompleteClick ==
    /\ UserCan
    /\ LET t == ActiveTopic(Rendered).id
           s == MarkTopicCompleteSync(Rendered, t)
       IN /\ Commit(s, pending)
          /\ last' = LastOf("markComplete", activeTopicIndex, t, Rendered, s, FALSE)
    /\ sess' = [sess EXCEPT !.acted = TRUE]
    /\ UNCHANGED <<catalog, phase, lsBookmark, remote, net, courseCompleted>>
    /\ UNCHANGED <<noteVars, unhandled>>
    /\ UNCHANGED outside

\* variant: markTopicComplete never advances
AdvanceAfterCompleteStaying(r, idx) == r

\* markTopicComplete after its await: advance to the next topic, page 0, or
\* show the course-completed toast.  nextIndex comes from the closure.
AdvanceAfterComplete(r, idx) ==
    IF idx + 1 < Len(r.topics)
    THEN [r EXCEPT !.activeTopicIndex = idx + 1, !.currentPage = 0]
    ELSE r

\* variant: the course-completed toast is shown when a next topic exists
SignalsCourseCompletedInverted(r, idx) == idx + 1 < Len(r.topics)

\* the else branch of the advance: the "Course Completed" toast
SignalsCourseCompleted(r, idx) == ~(idx + 1 < Len(r.topics))

\* variant: the advance is skipped when the POST failed
CompleteContinuationOnSuccess(r, c, ok) ==
    IF ok THEN AdvanceAfterComplete(r, c.idx) ELSE r

\* try { await apiClient.post(...) } catch { /* ignore */ }, then the toast
\* and the advance, whichever way the call settled
CompleteContinuation(r, c, ok) == AdvanceAfterComplete(r, c.idx)

\* What the code after the await of a remote write sets in React state:
\* saveBookmark, the auto-complete POST and saveNote set none.
WriteKinds == {"postBookmark", "complete", "completeAuto", "postNote"}
WriteContinuation(r, c, ok) ==
    IF c.kind = "complete" THEN CompleteContinuation(r, c, ok) ELSE r

CompleteSettle(c, ok) ==
    /\ BagIn(c, pending)
    /\ Answers(ok)
    /\ c.kind = "complete"
    /\ LET r == WriteContinuation(Rendered, c, ok)
           s == AfterRender(r)
       IN /\ Commit(s, Settled(c))
          /\ last' = LastOf("completeSettled", c.idx, c.topicId, r, s, Landed(r))
          /\ courseCompleted' = (courseCompleted \/ SignalsCourseCompleted(Rendered, c.idx))
          /\ remote' = IF ok THEN RemotePostComplete(remote, c.topicId) ELSE remote
    /\ UNCHANGED <<net, sess>>
    /\ UNCHANGED <<catalog, phase, lsBookmark, events>>
    /\ UNCHANGED <<noteVars, unhandled>>
    /\ UNCHANGED outside

\* the auto-complete effect's POST .../complete settles; failure is ignored
CompleteAutoSettle(c, ok) ==
    /\ BagIn(c, pending)
    /\ Answers(ok)
    /\ c.kind = "completeAuto"
    /\ remote' = IF ok THEN RemotePostComplete(remote, c.topicId) ELSE remote
    /\ pending' = Settled(c)
    /\ last' = LastPlain("settled")
    /\ UNCHANGED <<net, sess>>
    /\ UNCHANGED <<catalog, phase, mem, lsBookmark, lsViewed, lsCompleted,
                   courseCompleted, events>>
    /\ UNCHANGED <<noteVars, unhandled>>
    /\ UNCHANGED outside

(* -------------------------------- notes -------------------------------- *)
NoteTexts == {"n"}

\* handleNoteChange: copy[topicId][imageIndex] = text, persisted at once
HandleNoteChange(n, t, p, text) == Put(n, t, Put(Get(n, t, EmptyMap), p, text))

EditNoteClick(text) ==
    /\ UserCan
    /\ LET copy == HandleNoteChange(notes, ActiveTopic(Rendered).id, currentPage, text)
       IN /\ notes' = copy
          /\ lsNotes' = << copy >>
    /\ last' = LastPlain("editNote")
    /\ UNCHANGED <<catalog, phase, mem, lsBookmark, lsViewed, lsCompleted, remote,
                   net, pending, courseCompleted, sess, remoteNotes, unhandled>>
    /\ UNCHANGED outside

\* const text = notes[topicId]?.[imageIndex] || ''
NoteText(n, t, p) == Get(Get(n, t, EmptyMap), p, "")

\* setLoadingSave(true) disables Save until the call has settled
loadingSave == \E c \in BagToSet(pending) : c.kind = "postNote"

\* saveNote(activeTopic._id, currentPage): POST .../note with the text
SaveNoteClick ==
    /\ UserCan
    /\ ~loadingSave
    /\ LET t == ActiveTopic(Rendered).id
       IN pending' = pending (+) SetToBag({
              [Call("postNote", t, currentPage, 0) EXCEPT
                 !.note = NoteText(notes, t, currentPage)]})
    /\ last' = LastPlain("saveNote")
    /\ UNCHANGED <<catalog, phase, mem, lsBookmark, lsViewed, lsCompleted, remote,
                   net, courseCompleted, sess, noteVars, unhandled>>
    /\ UNCHANGED outside

\* the POST settles: "Saved" or "Saved locally" toast, setLoadingSave(false)
NoteSettle(c, ok) ==
    /\ BagIn(c, pending)
    /\ Answers(ok)
    /\ c.kind = "postNote"
    /\ remoteNotes' = IF ok
                      THEN RemotePostNote(remoteNotes, c.topicId, c.imageIndex, c.note)
                      ELSE remoteNotes
    /\ pending' = Settled(c)
    /\ last' = LastPlain("settled")
    /\ UNCHANGED <<catalog, phase, mem, lsBookmark, lsViewed, lsCompleted, remote,
                   net, courseCompleted, sess, notes, lsNotes, unhandled, events>>
    /\ UNCHANGED outside

(* ------------------------- the user's events --------------------------- *)
OpenCourse == Counted(Mount)
PrevPage == Counted(PrevPageClick)
NextPage == Counted(NextPageClick)
NextTopic == Counted(NextTopicClick)
SelectTopic(idx) == Counted(SelectTopicClick(idx))
MarkTopicComplete == Counted(MarkTopicCompleteClick)

(* ------------------------------- Next ---------------------------------- *)
Next ==
    \/ OpenCourse
    \/ CloseCourse
    \/ \E c \in BagToSet(pending), ok \in BOOLEAN : GetCourseSettle(c, ok)
    \/ \E c \in BagToSet(pending), ok \in BOOLEAN : GetProgressSettle(c, ok)
    \/ \E c \in BagToSet(pending), ok \in BOOLEAN : GetNotesSettle(c, ok)
    \/ \E c \in BagToSet(pending), ok \in BOOLEAN : GetBookmarkSettle(c, ok)
    \/ \E c \in BagToSet(pending), ok \in BOOLEAN : PostBookmarkSettle(c, ok)
    \/ \E c \in BagToSet(pending), ok \in BOOLEAN : CompleteSettle(c, ok)
    \/ \E c \in BagToSet(pending), ok \in BOOLEAN : CompleteAutoSettle(c, ok)
    \/ PrevPage
    \/ NextPage
    \/ NextTopic
    \/ \E idx \in 0..(Len(topics) - 1) : SelectTopic(idx)
    \/ MarkTopicComplete

Spec == Init /\ [][Next]_vars

\* A call the backend answers or refuses does settle: its promise is resolved
\* or rejected and the continuation runs on the event loop.
Settle ==
    \E c \in BagToSet(pending), ok \in BOOLEAN :
        \/ GetCourseSettle(c, ok)
        \/ GetProgressSettle(c, ok)
        \/ GetNotesSettle(c, ok)
        \/ GetBookmarkSettle(c, ok)
        \/ PostBookmarkSettle(c, ok)
        \/ CompleteSettle(c, ok)
        \/ CompleteAutoSettle(c, ok)

SpecLive == Init /\ [][Next]_vars /\ WF_vars(Settle)

(* ------------- scenario: fresh course, no network, paging -------------- *)
\* The course is opened once with nothing persisted and the backend out of
\* reach, and the user only pages with Prev and Next (as often as they like).
FreshOpen == Mount /\ events = 0 /\ net' = "down" /\ events' = 1
FreshPrevPage == PrevPageClick /\ UNCHANGED events
FreshNextPage == NextPageClick /\ UNCHANGED events

NextFresh ==
    \/ FreshOpen
    \/ \E c \in BagToSet(pending), ok \in BOOLEAN : GetCourseSettle(c, ok)
    \/ \E c \in BagToSet(pending), ok \in BOOLEAN : GetBookmarkSettle(c, ok)
    \/ \E c \in BagToSet(pending), ok \in BOOLEAN : PostBookmarkSettle(c, ok)
    \/ \E c \in BagToSet(pending), ok \in BOOLEAN : CompleteAutoSettle(c, ok)
    \/ FreshPrevPage
    \/ FreshNextPage

SpecFresh == Init /\ [][NextFresh]_vars

(* ------------- scenario: one session over stored content --------------- *)
\* What an earlier session, possibly over an earlier revision of the course,
\* or a damaged storage has left behind: a bookmark in localStorage (of a
\* topic "a", of page 17 of t1), content that does not parse, notes, a
\* bookmark and a note kept by the backend.
StoredStates ==
    { NoStored,
      [NoStored EXCEPT !.lsBookmark = << Bookmark("a", 1) >>],
      [NoStored EXCEPT !.lsBookmark = << Bookmark("t1", 17) >>],
      [NoStored EXCEPT !.lsBookmark = << Unparseable >>],
      [NoStored EXCEPT !.lsNotes = << Unparseable >>],
      [NoStored EXCEPT !.lsViewed = << Unparseable >>,
                       !.lsCompleted = << Unparseable >>],
      [NoStored EXCEPT
         !.remote = << [topicId |-> "a", percent |-> 0, lastImageIndex |-> 1] >>],
      [NoStored EXCEPT
         !.lsNotes = << HandleNoteChange(EmptyMap, "t1", 0, "n") >>,
         !.remoteNotes = << [topicId |-> "a", imageIndex |-> 0, note |-> "n"] >>] }

InitStored ==
    /\ catalog \in Catalogs
    /\ \E st \in StoredStates :
          /\ lsBookmark = st.lsBookmark
          /\ lsNotes = st.lsNotes
          /\ lsViewed = st.lsViewed
          /\ lsCompleted = st.lsCompleted
          /\ remote = st.remote
          /\ remoteNotes = st.remoteNotes
    /\ phase = "closed"
    /\ topics = <<>>
    /\ activeTopicIndex = 0
    /\ currentPage = 0
    /\ progress = EmptyMap
    /\ viewedPages = EmptyMap
    /\ completedTopics = EmptyMap
    /\ net = "down"
    /\ pending = EmptyBag
    /\ courseCompleted = FALSE
    /\ events = 0
    /\ last = LastPlain("init")
    /\ sess = NoSession
    /\ notes = EmptyMap
    /\ unhandled = FALSE
    /\ auth = "user"
    /\ OutsideInit

StoredOpen == Mount /\ events = 0 /\ net' \in {"up", "down"} /\ events' = 1
EditNote == \E text \in NoteTexts : Counted(EditNoteClick(text))
SaveNote == Counted(SaveNoteClick)

NextStored ==
    \/ StoredOpen
    \/ \E c \in BagToSet(pending), ok \in BOOLEAN : GetCourseSettle(c, ok)
    \/ \E c \in BagToSet(pending), ok \in BOOLEAN : GetProgressSettle(c, ok)
    \/ \E c \in BagToSet(pending), ok \in BOOLEAN : GetNotesSettle(c, ok)
    \/ \E c \in BagToSet(pending), ok \in BOOLEAN : GetBookmarkSettle(c, ok)
    \/ \E c \in BagToSet(pending), ok \in BOOLEAN : PostBookmarkSettle(c, ok)
    \/ \E c \in BagToSet(pending), ok \in BOOLEAN : CompleteSettle(c, ok)
    \/ \E c \in BagToSet(pending), ok \in BOOLEAN : CompleteAutoSettle(c, ok)
    \/ \E c \in BagToSet(pending), ok \in BOOLEAN : NoteSettle(c, ok)
    \/ NextPage
    \/ MarkTopicComplete
    \/ EditNote
    \/ SaveNote

SpecStored == InitStored /\ [][NextStored]_vars

(* ======================== properties of the reader ===================== *)
PageCount(ts, t) == ts[FindIndex(ts, t) + 1].pages

Viewed(t) == Get(viewedPages, t, <<>>)

InRange(t) == \A p \in Range(Viewed(t)) : 0 <= p /\ p < PageCount(topics, t)

\* viewedPages[t] holds each index of the topic once and nothing else
IsFull(t) ==
    /\ Range(Viewed(t)) = 0..(PageCount(topics, t) - 1)
    /\ Len(Viewed(t)) = PageCount(topics, t)

\* C1 (range validity): for every topic t of the loaded course, every index
\* in viewedPages[t] lies in [0, pageCount(t)).
C1_RangeValidity == \A t \in TopicIds(topics) : InRange(t)

\* C2 (monotonicity): no step of an open session lowers weightedProgress().
C2_Monotonic == [][phase' = "ready" => weightedProgress' >= weightedProgress]_vars

\* C3 (completion implies full view): right after markTopicComplete(t),
\* viewedPages[t] is exactly the index range 0 .. pageCount(t) - 1, in
\* whatever state it was before, and completedTopics[t] is true.
C3_CompletionFullView ==
    last.op = "markComplete" =>
        /\ IsFull(last.topic)
        /\ Get(completedTopics, last.topic, FALSE)

C3_Witness ==
    /\ last.op = "markComplete"
    /\ PageCount(topics, last.topic) = 2
    /\ currentPage = 0
    /\ Viewed(last.topic) = <<0, 1>>

\* C4 (idempotence): once the page in view has been marked viewed, marking
\* it again changes neither viewedPages (the active topic's set nor any
\* other) nor the arrays persisted under viewedPages_{courseId}.
C4_Idempotent ==
    (phase = "ready" /\ last.landed) =>
        LET t == ActiveTopic(Rendered).id
            again == ViewedPageEffect(Rendered, Rendered)
        IN /\ again.viewedPages = viewedPages
           /\ again.lsViewed = lsViewed
           /\ currentPage \in Range(Viewed(t))

C4_Witness ==
    /\ phase = "ready" /\ last.op = "prev"
    /\ Viewed(ActiveTopic(Rendered).id) = <<0, 1>>
    /\ currentPage = 0

\* C5 (weighted progress): weightedProgress() is the rounded quotient of
\* 100 * (viewed pages of all topics) by (pages of all topics), and 0 when
\* there are no pages.
C5_WeightedProgress ==
    weightedProgress =
        IF TotalPages(topics) = 0 THEN 0
        ELSE RoundHalfUp(100 * ViewedCount(topics, viewedPages), TotalPages(topics))

\* C6 (bookmark round trip): with the backend out of reach, the bookmark
\* that localStorage held when the course was opened, naming a topic of the
\* course, is the position the reader is at once loadBookmark has run (the
\* user not having clicked in between).
C6_BookmarkRoundTrip ==
    ( /\ last.op = "bookmarkLoaded"
      /\ net = "down"
      /\ ~sess.acted
      /\ sess.bmAtOpen # <<>>
      /\ FindIndex(topics, sess.bmAtOpen[1].topicId) >= 0 )
    => /\ activeTopicIndex = FindIndex(topics, sess.bmAtOpen[1].topicId)
       /\ currentPage = sess.bmAtOpen[1].imageIndex

\* Landing on the last page of a topic not yet at 100% marks it complete.
AutoCompleteMarksComplete ==
    ( /\ phase = "ready"
      /\ last.landed
      /\ last.toPage = topics[last.toTopic + 1].pages - 1
      /\ ~last.wasDone )
    => LET t == topics[last.toTopic + 1].id
       IN /\ Get(completedTopics, t, FALSE)
          /\ Get(progress, t, 0) = 100
          /\ IsFull(t)

\* C7 (auto-complete): whenever navigation lands on the last page of the
\* active topic and that topic is not yet recorded at 100%, the topic is
\* marked complete, its progress is 100 and viewedPages[t] is its full index
\* range; and in the fresh course without network, being on page
\* pageCount(topic0) - 1 of topic 0 means weightedProgress() is
\* round(100 * pageCount(topic0) / totalPages).
C7_AutoComplete ==
    /\ AutoCompleteMarksComplete
    /\ ( /\ phase = "ready"
         /\ activeTopicIndex = 0
         /\ currentPage = topics[1].pages - 1 )
       => /\ weightedProgress = RoundHalfUp(100 * topics[1].pages, TotalPages(topics))
          /\ Get(completedTopics, topics[1].id, FALSE)

C7_Witness ==
    /\ phase = "ready"
    /\ topics = buildFallbackTopics
    /\ last.op = "next" /\ last.auto
    /\ activeTopicIndex = 0 /\ currentPage = 16
    /\ weightedProgress = 30

\* C8 (auto-complete does not navigate): after an effect pass in which
\* auto-complete fired, the active topic and page are the ones the event
\* landed on.
C8_AutoCompleteStays ==
    last.auto => /\ activeTopicIndex = last.toTopic
                 /\ currentPage = last.toPage

C8_Witness ==
    /\ last.auto /\ last.op = "next"
    /\ activeTopicIndex < Len(topics) - 1
    /\ currentPage = totalPages - 1

\* C9 (explicit completion advances): when markTopicComplete, called on the
\* active topic i with i + 1 < number of topics, has run to its end, the
\* active topic is i + 1 and the active page is 0.
C9_CompletionAdvances ==
    (last.op = "completeSettled" /\ last.idx + 1 < Len(topics))
    => /\ activeTopicIndex = last.idx + 1
       /\ currentPage = 0

C9_Witness ==
    /\ last.op = "completeSettled"
    /\ last.idx = 0 /\ last.fromTopic = 0 /\ last.fromPage = 1
    /\ activeTopicIndex = 1 /\ currentPage = 0

\* C10 (last topic completion): when markTopicComplete on the final topic
\* has run to its end, the active topic and page are unchanged and course
\* completion has been signalled; afterwards the controls are still shown
\* and selecting any topic in the sidebar lands on that topic, page 0.
C10_LastTopicCompletion ==
    /\ (last.op = "completeSettled" /\ last.idx + 1 = Len(topics))
       => /\ activeTopicIndex = last.fromTopic
          /\ currentPage = last.fromPage
          /\ courseCompleted
    /\ courseCompleted
       => /\ ControlsShown
          /\ \A idx \in 0..(Len(topics) - 1) :
                LET s == AfterRender(SelectTopicTo(idx))
                IN s.activeTopicIndex = idx /\ s.currentPage = 0

C10_Witness ==
    /\ last.op = "completeSettled"
    /\ last.idx + 1 = Len(topics)
    /\ activeTopicIndex = last.idx
    /\ courseCompleted

\* C11 (fresh open starts at zero): in the fresh course without network,
\* once the fallback course is loaded and as long as the user has not
\* navigated, weightedProgress() is 0.
C11_FreshOpenZero ==
    (phase = "ready" /\ ~sess.acted) => weightedProgress = 0

C13_AlwaysRenderable ==
    (phase = "loading") ~> (phase = "closed" \/ Len(topics) > 0)

\* The bookmark loadBookmark gets to see: the backend's answer when the call
\* succeeds, the parsed localStorage entry when it fails.
ConsultedBookmark ==
    IF Online THEN RemoteGetBookmark(remote)
    ELSE IF Parses(lsBookmark) THEN lsBookmark ELSE <<>>

\* C14 (bookmark topic validation): when loadBookmark has run on a bookmark,
\* remote or local, whose topicId is not a topic of the loaded course, the
\* position is left as it was (topic 0, page 0 if the user has not moved) and
\* no exception has escaped.
C14_BookmarkTopicValidation ==
    ( /\ last.op = "bookmarkLoaded"
      /\ ConsultedBookmark # <<>>
      /\ ConsultedBookmark[1].topicId \notin TopicIds(topics) )
    => /\ activeTopicIndex = last.fromTopic
       /\ currentPage = last.fromPage
       /\ ~sess.acted => (activeTopicIndex = 0 /\ currentPage = 0)
       /\ ~unhandled

C14_Witness ==
    /\ last.op = "bookmarkLoaded"
    /\ ~Online
    /\ lsBookmark = << Bookmark("a", 1) >>
    /\ topics = buildFallbackTopics
    /\ activeTopicIndex = 0 /\ currentPage = 0

\* C15 (bookmark page validation): after loadBookmark the active page index
\* lies within [0, pageCount(activeTopic)).
C15_BookmarkPageValidation ==
    (last.op = "bookmarkLoaded" /\ totalPages > 0)
    => currentPage \in 0..(totalPages - 1)

\* C16 (local fallback of loadBookmark): when the bookmark fetch has failed
\* or has answered null, and localStorage holds a bookmark of a topic and a
\* page of the course, that bookmark is the position after loadBookmark (the
\* user not having moved).
C16_LocalFallback ==
    ( /\ last.op = "bookmarkLoaded"
      /\ ~sess.acted
      /\ (~Online \/ RemoteGetBookmark(remote) = <<>>)
      /\ Parses(lsBookmark)
      /\ FindIndex(topics, lsBookmark[1].topicId) >= 0
      /\ lsBookmark[1].imageIndex
            \in 0..(PageCount(topics, lsBookmark[1].topicId) - 1) )
    => /\ activeTopicIndex = FindIndex(topics, lsBookmark[1].topicId)
       /\ currentPage = lsBookmark[1].imageIndex

\* C17 (local-first): every local mutation of an event is in place in the
\* state the event leaves, while its remote write is still pending: the
\* viewed page, the auto-completion, the note, and for markTopicComplete the
\* completion together with the advance to the next topic, page 0.
C17_LocalFirst ==
    /\ (phase = "ready" /\ last.landed)
          => currentPage \in Range(Viewed(ActiveTopic(Rendered).id))
    /\ last.auto => Get(completedTopics, ActiveTopic(Rendered).id, FALSE)
    /\ last.op = "editNote" => lsNotes = << notes >>
    /\ last.op = "markComplete"
          => /\ Get(completedTopics, last.topic, FALSE)
             /\ Get(progress, last.topic, 0) = 100
             /\ last.idx + 1 < Len(topics)
                   => (activeTopicIndex = last.idx + 1 /\ currentPage = 0)

\* C18 (event-order application): a page change or topic selection made
\* while a markTopicComplete call is pending is not overridden when that call
\* settles: the settling leaves the active topic and page as the later event
\* set them.
C18_EventOrder ==
    [][ ( /\ last.op \in {"select", "prev", "next", "nextTopic"}
          /\ last'.op = "completeSettled" )
        => (activeTopicIndex' = activeTopicIndex /\ currentPage' = currentPage) ]_vars

\* viewedPages, completedTopics, per-topic progress, active topic and page
ViewState(s) ==
    << s.viewedPages, s.completedTopics, s.progress, s.activeTopicIndex,
       s.currentPage >>

\* C19 (remote outcome independence): for every remote write in flight, the
\* in-memory view state its settling leaves is the same whether the write
\* succeeds or fails (notes are not touched by any settling).
C19_RemoteOutcomeIndependence ==
    \A c \in BagToSet(pending) :
        c.kind \in WriteKinds =>
            ViewState(AfterRender(WriteContinuation(Rendered, c, TRUE)))
              = ViewState(AfterRender(WriteContinuation(Rendered, c, FALSE)))

C19_Witness ==
    /\ last.op = "completeSettled"
    /\ ~Online
    /\ last.fromTopic = last.idx
    /\ activeTopicIndex = last.idx + 1
    /\ currentPage = 0

\* C20 (no exception escapes): whatever the local cache keys hold, no
\* exception or rejection leaves the reader's effects.
C20_NoExceptionEscapes == ~unhandled

(* ------------------- the reader without a signed-in user --------------- *)
\* AuthProvider starts with loading = true, user = null and resolves once:
\* to the user when the stored token verifies, to null when there is no
\* token, the verification fails, or the 15 s safety timer fires.  The course
\* routes all pass authenticateToken, so a session without a user is one
\* whose calls the backend refuses.
InitAuth ==
    /\ catalog \in Catalogs
    /\ phase = "closed"
    /\ topics = <<>>
    /\ activeTopicIndex = 0
    /\ currentPage = 0
    /\ progress = EmptyMap
    /\ viewedPages = EmptyMap
    /\ completedTopics = EmptyMap
    /\ lsBookmark = <<>>
    /\ lsViewed = <<>>
    /\ lsCompleted = <<>>
    /\ remote = <<>>
    /\ net = "down"
    /\ pending = EmptyBag
    /\ courseCompleted = FALSE
    /\ events = 0
    /\ last = LastPlain("init")
    /\ sess = NoSession
    /\ notes = EmptyMap
    /\ lsNotes = <<>>
    /\ remoteNotes = <<>>
    /\ unhandled = FALSE
    /\ auth = "loading"
    /\ OutsideInit

\* /course/:courseId is opened while the provider is still loading
AuthOpen == Mount /\ events = 0 /\ events' = 1

\* setUser(...); setLoading(false).  With no user the guard effect runs
\* navigate('/auth') and the reader unmounts.
AuthResolve ==
    /\ auth = "loading"
    /\ phase # "closed"
    /\ IF Online
       THEN /\ auth' = "user"
            /\ last' = LastPlain("authResolved")
            /\ UNCHANGED <<catalog, phase, mem, lsBookmark, lsViewed, lsCompleted,
                           remote, net, pending, courseCompleted, events, sess,
                           noteVars, unhandled>>
       ELSE /\ auth' = "absent"
            /\ Unmount
    /\ UNCHANGED <<switchVars, shopVars>>

NextAuth ==
    \/ AuthOpen
    \/ AuthResolve
    \/ \E c \in BagToSet(pending), ok \in BOOLEAN : GetCourseSettle(c, ok)
    \/ \E c \in BagToSet(pending), ok \in BOOLEAN : GetProgressSettle(c, ok)
    \/ \E c \in BagToSet(pending), ok \in BOOLEAN : GetNotesSettle(c, ok)
    \/ \E c \in BagToSet(pending), ok \in BOOLEAN : GetBookmarkSettle(c, ok)
    \/ \E c \in BagToSet(pending), ok \in BOOLEAN : PostBookmarkSettle(c, ok)
    \/ \E c \in BagToSet(pending), ok \in BOOLEAN : CompleteAutoSettle(c, ok)
    \/ NextPage
    \/ PrevPage

SpecAuth == InitAuth /\ [][NextAuth]_vars

SaveBookmarkInFlight == \E c \in BagToSet(pending) : c.kind = "postBookmark"

\* C22 (last write wins under outage): with the backend unavailable and no
\* saveBookmark call in flight any more, the bookmark in localStorage is the
\* position of the most recent page change, which is the position shown.
C22_LastWriteWins ==
    ( /\ phase = "ready"
      /\ net = "down"
      /\ HasActiveTopic(Rendered)
      /\ ~SaveBookmarkInFlight )
    => lsBookmark = << Bookmark(ActiveTopic(Rendered).id, currentPage) >>

(* -------------------------- the remote bookmark ------------------------ *)
\* C24 (remote bookmark is the last-viewed position): right after the backend
\* has stored a bookmark, GET bookmark answers that bookmark.
C24_RemoteBookmarkIsLast ==
    last.op = "bookmarkSaved"
    => RemoteGetBookmark(remote) = << Bookmark(last.topic, last.idx) >>

(* --------------------- from /course/A to /course/B --------------------- *)
\* <Route path='course/:courseId' element={<CourseReader />} /> keeps the
\* reader instance when only the parameter changes: React state stays, the
\* effects that list courseId run again.  From then on the localStorage keys
\* and the backend entries the reader works on are those of course B, for
\* which nothing is stored; those of course A are set aside.
StoredNow ==
    [lsBookmark |-> lsBookmark, lsNotes |-> lsNotes, lsViewed |-> lsViewed,
     lsCompleted |-> lsCompleted, remote |-> remote, remoteNotes |-> remoteNotes]

\* The render with the new courseId and its effect pass: the load-course
\* effect issues GET /courses/B, the load-persisted effect reads
\* viewedPages_B and completedTopics_B, the viewed-page effect adds the
\* current page to viewedPages and writes the whole map to viewedPages_B.
SwitchCourseClick ==
    /\ ControlsShown
    /\ courseId = "A"
    /\ pending = EmptyBag
    /\ courseId' = "B"
    /\ elsewhere' = StoredNow
    /\ catalog' \in Catalogs
    /\ lsBookmark' = elsewhere.lsBookmark
    /\ lsNotes' = elsewhere.lsNotes
    /\ remote' = elsewhere.remote
    /\ remoteNotes' = elsewhere.remoteNotes
    /\ LET r  == [Rendered EXCEPT !.lsViewed = elsewhere.lsViewed,
                                  !.lsCompleted = elsewhere.lsCompleted]
           s1 == LoadPersistedCompleted(LoadPersistedViewed(r))
           s2 == ViewedPageEffect(s1, r)
           s  == Issue(s2, Call("getCourse", "", 0, 0))
       IN /\ Commit(s, pending)
          /\ last' = LastOf("switchCourse", 0, "", r, s, FALSE)
    /\ UNCHANGED <<phase, net, courseCompleted, sess, notes, unhandled, auth>>
    /\ UNCHANGED shopVars

SwitchOpen == Mount /\ events = 0 /\ net' \in {"up", "down"} /\ events' = 1
SwitchCourse == Counted(SwitchCourseClick)

NextSwitch ==
    \/ SwitchOpen
    \/ SwitchCourse
    \/ \E c \in BagToSet(pending), ok \in BOOLEAN : GetCourseSettle(c, ok)
    \/ \E c \in BagToSet(pending), ok \in BOOLEAN : GetProgressSettle(c, ok)
    \/ \E c \in BagToSet(pending), ok \in BOOLEAN : GetNotesSettle(c, ok)
    \/ \E c \in BagToSet(pending), ok \in BOOLEAN : GetBookmarkSettle(c, ok)
    \/ \E c \in BagToSet(pending), ok \in BOOLEAN : PostBookmarkSettle(c, ok)
    \/ \E c \in BagToSet(pending), ok \in BOOLEAN : CompleteAutoSettle(c, ok)
    \/ NextPage
    \/ EditNote

SpecSwitch == Init /\ [][NextSwitch]_vars

\* C23 (per-course ViewState): right after the reader's courseId has changed
\* from A to B, with nothing stored for B, B's weightedProgress counts and
\* viewedPages_B holds no page but the one on screen.
C23_PerCourseViewState ==
    last.op = "switchCourse"
    => /\ ViewedCount(topics, viewedPages) <= 1
       /\ lsViewed = << [t \in {ActiveTopic(Rendered).id} |-> << currentPage >>] >>
       /\ lsCompleted = <<>>

(* ------------------------------ note cells ----------------------------- *)
\* the (topic, page) cells of a notes map
NoteCells(n) == UNION { {<<t, p>> : p \in DOMAIN n[t]} : t \in DOMAIN n }

\* the notes map kept under notes_{courseId}, {} when absent or damaged
StoredNotes(ls) == IF Parses(ls) THEN ls[1] ELSE EmptyMap

\* C25 (note cells are independent): an edit of the note of the cell on screen
\* leaves the text of every other cell as it was, in the notes state and in
\* the notes_{courseId} entry, and leaves viewedPages, completedTopics and
\* the bookmark alone.
C25_NoteCellsIndependent ==
    [][ last'.op = "editNote"
        => LET here  == << ActiveTopic(Rendered).id, currentPage >>
               cells == (NoteCells(notes) \cup NoteCells(notes')
                           \cup NoteCells(StoredNotes(lsNotes))
                           \cup NoteCells(StoredNotes(lsNotes'))) \ {here}
           IN /\ \A x \in cells :
                    /\ NoteText(notes', x[1], x[2]) = NoteText(notes, x[1], x[2])
                    /\ NoteText(StoredNotes(lsNotes'), x[1], x[2])
                         = NoteText(StoredNotes(lsNotes), x[1], x[2])
              /\ UNCHANGED <<viewedPages, completedTopics, lsViewed, lsCompleted,
                             lsBookmark, remote>> ]_vars

(* ------------------------- resume across a re-open --------------------- *)
LoadBookmarkInFlight == \E c \in BagToSet(pending) : c.kind = "getBookmark"

\* C26 (resume position survives re-open): as long as loadBookmark has not
\* read it and the user has not moved, the bookmark persisted when the course
\* was opened, in localStorage and on the backend, is still the one stored.
C26_ResumeSurvivesReopen ==
    ( /\ phase = "ready"
      /\ LoadBookmarkInFlight
      /\ ~sess.acted )
    => /\ sess.bmAtOpen # <<>> => lsBookmark = sess.bmAtOpen
       /\ sess.rbAtOpen # <<>> => RemoteGetBookmark(remote) = sess.rbAtOpen

(* -------------------------- bounded percentage ------------------------- *)
\* C27 (bounded percentage): weightedProgress() is an integer from 0 to 100
\* in every reachable state.
C27_BoundedPercentage == weightedProgress \in 0..100

(* ----------------------- per-topic progress kept ----------------------- *)
\* C28 (per-topic progress is non-decreasing): a topic recorded as completed
\* has per-topic progress 100 in every reachable state.
C28_CompletedStays100 ==
    \A t \in DOMAIN completedTopics :
        completedTopics[t] => Get(progress, t, 0) = 100

(* ============================ coupon usage ============================= *)
\* POST /coupons/:id/use.  Each request works on its own copy of the
\* document: Coupon.findOne reads it, canBeUsed and use() test and increment
\* the copy, save() writes the modified path back ($set usedCount).  Requests
\* interleave at the two awaits.
readerVars ==
    <<catalog, phase, mem, lsBookmark, lsViewed, lsCompleted, remote, net, pending,
      courseCompleted, events, last, sess, noteVars, unhandled, auth, switchVars>>

\* usageLimit: usageLimit ? parseInt(usageLimit) : null
UsageLimits == { <<>>, << 1 >>, << 2 >> }

\* isValid(): isActive, within validFrom..validTill (taken as so), and
\* usageLimit === null || usedCount < usageLimit
canBeUsed(doc) ==
    /\ doc.isActive
    /\ (doc.usageLimit = <<>> \/ doc.usedCount < doc.usageLimit[1])

InitCoupon ==
    /\ ReaderInit
    /\ catalog = NoCourse
    /\ \E lim \in UsageLimits, act \in BOOLEAN :
          coupon = [usedCount |-> 0, usageLimit |-> lim, isActive |-> act]
    /\ useReqs = [r \in Requests |-> IdleUse]
    /\ payStatus = "initiated"
    /\ payReqs = [r \in Requests |-> IdlePay]

\* const coupon = await Coupon.findOne({ id }); 400 unless canBeUsed();
\* use(): this.usedCount += 1 on the copy
UseFind(r) ==
    /\ useReqs[r].pc = "idle"
    /\ useReqs' = [useReqs EXCEPT ![r] =
                     IF canBeUsed(coupon)
                     THEN [pc |-> "found", usedCount |-> coupon.usedCount + 1]
                     ELSE [pc |-> "refused", usedCount |-> coupon.usedCount]]
    /\ UNCHANGED <<coupon, payStatus, payReqs>>
    /\ UNCHANGED readerVars

\* variant: the save increments what the database holds ($inc)
SavedUsedCountIncrementing(db, doc) == db.usedCount + 1

\* what save() writes: the value of the modified path of the copy
SavedUsedCount(db, doc) == doc.usedCount

\* return await this.save(); 200 with the updated coupon
UseSave(r) ==
    /\ useReqs[r].pc = "found"
    /\ coupon' = [coupon EXCEPT !.usedCount = SavedUsedCount(coupon, useReqs[r])]
    /\ useReqs' = [useReqs EXCEPT ![r].pc = "done"]
    /\ UNCHANGED <<payStatus, payReqs>>
    /\ UNCHANGED readerVars

NextCoupon ==
    \/ \E r \in Requests : UseFind(r)
    \/ \E r \in Requests : UseSave(r)

SpecCoupon == InitCoupon /\ [][NextCoupon]_vars

\* C29 (coupon usage limit): for a coupon with a usage limit, usedCount never
\* exceeds usageLimit, whatever the interleaving of the use requests.
C29_UsageLimit ==
    coupon.usageLimit # <<>> => coupon.usedCount <= coupon.usageLimit[1]

\* two requests that both read the coupon one use below its limit have both
\* been served
C29_Witness ==
    /\ coupon.usageLimit = << 1 >>
    /\ coupon.usedCount = 1
    /\ \E r1, r2 \in Requests :
          /\ r1 # r2
          /\ useReqs[r1] = [pc |-> "done", usedCount |-> 1]
          /\ useReqs[r2] = [pc |-> "done", usedCount |-> 1]

(* =========================== payment status ============================ *)
\* The payment routes.  Each request reads the document with
\* Payment.findOne, tests the status of its copy, sets the new status on the
\* copy and saves; requests interleave between the read and the save.
Statuses == {"initiated", "captured", "failed", "refunded"}
PayOps == {"capture", "fail", "refund", "status"}

\* the status a request sets: fixed by the route, or req.body.status
PayTargets(op) ==
    CASE op = "capture" -> {"captured"}
      [] op = "fail"    -> {"failed"}
      [] op = "refund"  -> {"refunded"}
      [] op = "status"  -> Statuses

\* the guard of the route on the status it has read
PayAllowed(op, status) ==
    CASE op = "capture" -> status = "initiated"
      [] op = "fail"    -> status = "initiated"
      [] op = "refund"  -> status = "captured"
      [] op = "status"  -> TRUE

\* POST /payments stores the status of the body, 'initiated' by default
InitPayment ==
    /\ ReaderInit
    /\ catalog = NoCourse
    /\ coupon = [usedCount |-> 0, usageLimit |-> <<>>, isActive |-> TRUE]
    /\ useReqs = [r \in Requests |-> IdleUse]
    /\ payStatus \in Statuses
    /\ payReqs = [r \in Requests |-> IdlePay]

\* const payment = await Payment.findOne({ id }); 400 when the route's guard
\* rejects the status read; payment.status = ... on the copy
PayFind(r, op, to) ==
    /\ payReqs[r].pc = "idle"
    /\ to \in PayTargets(op)
    /\ payReqs' = [payReqs EXCEPT ![r] =
                     [pc |-> IF PayAllowed(op, payStatus) THEN "found" ELSE "refused",
                      op |-> op, status |-> payStatus, to |-> to]]
    /\ UNCHANGED <<coupon, useReqs, payStatus>>
    /\ UNCHANGED readerVars

\* await payment.save(): the status path is written when the copy changed it
PaySave(r) ==
    /\ payReqs[r].pc = "found"
    /\ payStatus' = IF payReqs[r].to # payReqs[r].status
                    THEN payReqs[r].to
                    ELSE payStatus
    /\ payReqs' = [payReqs EXCEPT ![r].pc = "done"]
    /\ UNCHANGED <<coupon, useReqs>>
    /\ UNCHANGED readerVars

NextPayment ==
    \/ \E r \in Requests, op \in PayOps, to \in Statuses : PayFind(r, op, to)
    \/ \E r \in Requests : PaySave(r)

SpecPayment == InitPayment /\ [][NextPayment]_vars

StatusMachine ==
    { <<"initiated", "captured">>, <<"initiated", "failed">>,
      <<"captured", "refunded">> }

\* C30 (payment status machine): the status of a payment changes only along
\* initiated -> captured, initiated -> failed and captured -> refunded.
C30_PaymentStatusMachine ==
    [][ payStatus' # payStatus => <<payStatus, payStatus'>> \in StatusMachine ]_vars
====
